---- MODULE Spec2Model ----
(***************************************************************************)
(* Model of the Shadowsocks -> V2Ray converter of src/main.py.             *)
(*                                                                         *)
(* Text is modelled as Python models it: a str is a sequence of Unicode    *)
(* code points (72 is "H", 45 is "-", 26368 is the first character of the  *)
(* marker "最新网址").  Comparison of strings is comparison of code point   *)
(* sequences, as in Python.  A record (a Python dict) is a TLA+ record     *)
(* whose DOMAIN is the dict's key set, so `"remarks" in cfg` is            *)
(* "remarks" \in DOMAIN cfg.  A Python list is a sequence; a dict that is  *)
(* iterated (insertion ordered) is a sequence of key/value records.        *)
(***************************************************************************)
EXTENDS Integers, Sequences, FiniteSets, TLC

VARIABLES
    stage,            \* position of the pipeline walk (SpecPipeline)
    ss_configs,       \* the loaded record list
    valid_nodes,      \* result of filter_info_nodes
    possible_regions, \* result of extract_regions (a set)
    region_order,     \* the order in which the set possible_regions iterates
    regions,          \* result of group_nodes_by_region
    valid_configs,    \* result of select_nodes_from_regions
    outFile,          \* content of the output file (Spec)
    dockerFile,       \* content of the Docker Compose file (Spec)
    runs,             \* number of converter runs so far (Spec)
    writer,           \* the arguments of the run that wrote outFile (Spec)
    last              \* what the most recent converter run did (Spec)

vars == <<stage, ss_configs, valid_nodes, possible_regions, region_order,
          regions, valid_configs, outFile, dockerFile, runs, writer, last>>

pipeVars == <<stage, ss_configs, valid_nodes, possible_regions, region_order,
              regions, valid_configs>>
runVars == <<outFile, dockerFile, runs, writer, last>>

-----------------------------------------------------------------------------
(* Bounds *)

\* longest record list the pipeline walk is started on
MaxLen == 3
\* number of converter runs in one behaviour
MaxRuns == 2

-----------------------------------------------------------------------------
(* Characters and strings *)

Hyphen == <<45>>

\* [A-Za-z]
IsLetter(c) == c \in (65..90) \cup (97..122)

\* \d of a str pattern: the Unicode decimal digits (category Nd).  They come
\* in blocks of ten consecutive code points, 0 to 9 of one script, the ASCII
\* digits 48..57 first; the mathematical digits U+1D7CE..U+1D7FF are five
\* such blocks in a row.
DigitBlockStarts ==
    {48, 1632, 1776, 1984, 2406, 2534, 2662, 2790,
     2918, 3046, 3174, 3302, 3430, 3558, 3664, 3792,
     3872, 4160, 4240, 6112, 6160, 6470, 6608, 6784,
     6800, 6992, 7088, 7232, 7248, 42528, 43216, 43264,
     43472, 43504, 43600, 44016, 65296, 66720, 68912, 69734,
     69872, 69942, 70096, 70384, 70736, 70864, 71248, 71360,
     71472, 71904, 72016, 72784, 73040, 73120, 92768, 92864,
     93008, 123200, 123632, 125264, 130032}

IsDigit(c) ==
    \/ \E b \in DigitBlockStarts : c \in b..(b + 9)
    \/ c \in 120782..120831

\* \s of a str pattern, which is also what str.strip() removes
IsSpace(c) ==
    c \in (9..13) \cup (28..32) \cup {133, 160, 5760} \cup (8192..8202)
          \cup {8232, 8233, 8239, 8287, 12288}

\* [A-Za-z\s]
IsRegionChar(c) == IsLetter(c) \/ IsSpace(c)

\* [\-\d]
IsHyphenOrDigit(c) == c = 45 \/ IsDigit(c)

\* [-\s]
IsHyphenOrSpace(c) == c = 45 \/ IsSpace(c)

Min(S) == CHOOSE x \in S : \A y \in S : x <= y
Max(S) == CHOOSE x \in S : \A y \in S : x >= y

\* s.startswith(p)
StartsWith(s, p) == Len(p) <= Len(s) /\ SubSeq(s, 1, Len(p)) = p

\* p in s  (substring test)
Contains(s, p) ==
    \E i \in 1..(Len(s) - Len(p) + 1) : SubSeq(s, i, i + Len(p) - 1) = p

\* a < b for Python strings: lexicographic on code points
RECURSIVE StrLess(_, _)
StrLess(a, b) ==
    IF b = <<>> THEN FALSE
    ELSE IF a = <<>> THEN TRUE
    ELSE IF a[1] # b[1] THEN a[1] < b[1]
    ELSE StrLess(Tail(a), Tail(b))

\* s.strip()
RECURSIVE LStrip(_)
LStrip(s) == IF s # <<>> /\ IsSpace(s[1]) THEN LStrip(Tail(s)) ELSE s
RECURSIVE RStrip(_)
RStrip(s) ==
    IF s # <<>> /\ IsSpace(s[Len(s)]) THEN RStrip(SubSeq(s, 1, Len(s) - 1)) ELSE s
Strip(s) == RStrip(LStrip(s))

\* str(n) for n >= 0: the decimal digits
RECURSIVE IntToStr(_)
IntToStr(n) == IF n < 10 THEN <<48 + n>> ELSE IntToStr(n \div 10) \o <<48 + (n % 10)>>

-----------------------------------------------------------------------------
(* The two label patterns *)

NoMatch == [matched |-> FALSE, group |-> <<>>]
Matched(g) == [matched |-> TRUE, group |-> g]

\* index one past the run of [A-Za-z\s] characters that starts at i
RECURSIVE RunEnd(_, _)
RunEnd(s, i) == IF i <= Len(s) /\ IsRegionChar(s[i]) THEN RunEnd(s, i + 1) ELSE i

\* re.match(r'^([A-Za-z\s]+)[\-\d]', remarks): the greedy leading run, which
\* must be non-empty and be followed by a hyphen or a digit
MatchLeading(s) ==
    LET e == RunEnd(s, 1)
    IN IF e > 1 /\ e <= Len(s) /\ IsHyphenOrDigit(s[e])
       THEN Matched(SubSeq(s, 1, e - 1))
       ELSE NoMatch

\* r'([A-Za-z\s]+)[-\s]\d+' tried at start position i.  The group is greedy:
\* first the whole run followed by the separator and a digit; then, giving
\* back one character, the run without its last character, that character
\* being the separator.
MatchEmbeddedAt(s, i) ==
    LET e == RunEnd(s, i)
    IN IF e > i /\ e + 1 <= Len(s) /\ IsHyphenOrSpace(s[e]) /\ IsDigit(s[e + 1])
       THEN Matched(SubSeq(s, i, e - 1))
       ELSE IF e - 1 > i /\ e <= Len(s) /\ IsHyphenOrSpace(s[e - 1]) /\ IsDigit(s[e])
       THEN Matched(SubSeq(s, i, e - 2))
       ELSE NoMatch

\* re.search(r'([A-Za-z\s]+)[-\s]\d+', remarks): the leftmost start that matches
MatchEmbedded(s) ==
    LET starts == {i \in 1..Len(s) : MatchEmbeddedAt(s, i).matched}
    IN IF starts = {} THEN NoMatch ELSE MatchEmbeddedAt(s, Min(starts))

\* `region and len(region) > 1` of a match's stripped group
Accepted(m) == m.matched /\ Len(Strip(m.group)) > 1

-----------------------------------------------------------------------------
(* filter_info_nodes *)

\* info_keywords = ["最新网址", "剩余流量", "过期时间"]
info_keywords ==
    << <<26368, 26032, 32593, 22336>>,
       <<21097, 20313, 27969, 37327>>,
       <<36807, 26399, 26102, 38388>> >>

HasKeyword(remarks) == \E k \in 1..Len(info_keywords) : Contains(remarks, info_keywords[k])

\* the condition with a truthiness test of the label added
KeepsMutant(cfg) == "remarks" \in DOMAIN cfg /\ cfg.remarks # <<>> /\ ~HasKeyword(cfg.remarks)

\* the condition of the loop body of filter_info_nodes
Keeps(cfg) == "remarks" \in DOMAIN cfg /\ ~HasKeyword(cfg.remarks)

RECURSIVE filter_info_nodes(_)
filter_info_nodes(cfgs) ==
    IF cfgs = <<>> THEN <<>>
    ELSE (IF Keeps(cfgs[1]) THEN <<cfgs[1]>> ELSE <<>>) \o filter_info_nodes(Tail(cfgs))

-----------------------------------------------------------------------------
(* extract_regions *)

\* what one node adds to possible_regions
RegionsOfNode(node) ==
    IF "remarks" \notin DOMAIN node THEN {}
    ELSE IF Accepted(MatchLeading(node.remarks))
         THEN {Strip(MatchLeading(node.remarks).group)}
    ELSE IF Accepted(MatchEmbedded(node.remarks))
         THEN {Strip(MatchEmbedded(node.remarks).group)}
    ELSE {}

extract_regions(nodes) == UNION {RegionsOfNode(nodes[i]) : i \in 1..Len(nodes)}

-----------------------------------------------------------------------------
(* group_nodes_by_region *)

Other == <<79, 116, 104, 101, 114>>

\* the iteration orders a set can take
Orders(S) == {o \in [1..Cardinality(S) -> S] : \A r \in S : \E i \in DOMAIN o : o[i] = r}

KeyIndex(d, key) == {i \in 1..Len(d) : d[i].region = key}

\* regions[key].append(entry) on the defaultdict(list)
Append2(d, key, entry) ==
    IF KeyIndex(d, key) = {}
    THEN Append(d, [region |-> key, nodes |-> <<entry>>])
    ELSE [i \in 1..Len(d) |->
            IF d[i].region = key
            THEN [region |-> key, nodes |-> Append(d[i].nodes, entry)]
            ELSE d[i]]

\* the bucket and flag one node gets: the first region of the iteration
\* order that occurs in remarks, else the leading pattern, else "Other"
Assignment(remarks, order) ==
    LET hits == {i \in 1..Len(order) : Contains(remarks, order[i])}
    IN IF hits # {}
       THEN [region |-> order[Min(hits)],
             starts_with_region |-> StartsWith(remarks, order[Min(hits)])]
       ELSE IF Accepted(MatchLeading(remarks))
       THEN [region |-> Strip(MatchLeading(remarks).group), starts_with_region |-> TRUE]
       ELSE [region |-> Other, starts_with_region |-> FALSE]

RECURSIVE GroupFrom(_, _, _)
GroupFrom(d, nodes, order) ==
    IF nodes = <<>> THEN d
    ELSE IF "remarks" \notin DOMAIN nodes[1] THEN GroupFrom(d, Tail(nodes), order)
    ELSE LET a == Assignment(nodes[1].remarks, order)
         IN GroupFrom(Append2(d, a.region,
                              [node |-> nodes[1], starts_with_region |-> a.starts_with_region]),
                      Tail(nodes), order)

\* group_nodes_by_region(nodes, possible_regions), the set iterating in `order`
group_nodes_by_region(nodes, order) == GroupFrom(<<>>, nodes, order)

-----------------------------------------------------------------------------
(* select_nodes_from_regions *)

\* key=lambda x: x[0]["remarks"]
KeyLessMutant(a, b) == StrLess(a.node.remarks, b.node.remarks)

\* key=lambda x: (not x[1], x[0]["remarks"]) ; a's key < b's key
KeyLess(a, b) ==
    \/ a.starts_with_region /\ ~b.starts_with_region
    \/ /\ a.starts_with_region = b.starts_with_region
       /\ StrLess(a.node.remarks, b.node.remarks)

\* sorted(nodes, key=...) as the sequence of positions of `nodes`: the sort
\* is stable, so equal keys keep their order
RECURSIVE InsertIdx(_, _, _)
InsertIdx(sorted, nodes, i) ==
    IF sorted = <<>> THEN <<i>>
    ELSE IF KeyLess(nodes[i], nodes[sorted[1]])
         THEN <<i>> \o sorted
         ELSE <<sorted[1]>> \o InsertIdx(Tail(sorted), nodes, i)

RECURSIVE SortedUpTo(_, _)
SortedUpTo(nodes, n) ==
    IF n = 0 THEN <<>> ELSE InsertIdx(SortedUpTo(nodes, n - 1), nodes, n)

sorted_nodes(nodes) == SortedUpTo(nodes, Len(nodes))

\* the loop body without its `len(sorted_nodes) == 1` branch
SelectedIdxMutant(nodes) ==
    LET s == sorted_nodes(nodes)
    IN IF nodes = <<>> THEN <<>> ELSE <<s[1], s[Len(s)]>>

\* the positions of a bucket that the loop body selects, in selection order
SelectedIdx(nodes) ==
    LET s == sorted_nodes(nodes)
    IN IF nodes = <<>> THEN <<>>
       ELSE IF Len(s) = 1 THEN <<s[1]>>
       ELSE <<s[1], s[Len(s)]>>

SelectedOf(nodes) == [k \in 1..Len(SelectedIdx(nodes)) |-> nodes[SelectedIdx(nodes)[k]].node]

RECURSIVE select_nodes_from_regions(_)
select_nodes_from_regions(d) ==
    IF d = <<>> THEN <<>>
    ELSE SelectedOf(d[1].nodes) \o select_nodes_from_regions(Tail(d))

-----------------------------------------------------------------------------
(* The V2Ray configuration document *)

direct == <<100, 105, 114, 101, 99, 116>>

default_config ==
    [inbounds |-> <<>>,
     outbounds |-> <<>>,
     routing |-> [rules |-> <<>>, domainStrategy |-> "IPIfNonMatch"]]

\* The output file: absent, present but not loadable as a configuration
\* (invalid JSON, or no "inbounds" list of entries with a "port"), or a
\* configuration document.  json.dump followed by json.load gives back the
\* strings, integers, booleans, lists and string-keyed dicts a configuration
\* is made of, so a readable file is modelled by the configuration it holds.
AbsentFile == [kind |-> "absent", config |-> default_config]
CorruptFile == [kind |-> "corrupt", config |-> default_config]
DocFile(c) == [kind |-> "doc", config |-> c]

PortsOf(inbounds) == {inbounds[i].port : i \in 1..Len(inbounds)}

\* the conflict check with < for <=
AdjustedPortMutant(used_ports, start_port) ==
    IF used_ports # {} /\ start_port < Max(used_ports)
    THEN Max(used_ports) + 1
    ELSE start_port

\* start_port after the conflict check of load_or_create_v2ray_config
AdjustedPort(used_ports, start_port) ==
    IF used_ports # {} /\ start_port <= Max(used_ports)
    THEN Max(used_ports) + 1
    ELSE start_port

\* load_or_create_v2ray_config: the configuration, the start port, and
\* whether the output file was opened for reading
load_or_create_v2ray_config(output_file, append_mode, start_port) ==
    IF append_mode /\ output_file.kind # "absent"
    THEN IF output_file.kind = "doc"
         THEN [config |-> output_file.config,
               start_port |-> AdjustedPort(PortsOf(output_file.config.inbounds), start_port),
               opened |-> TRUE]
         ELSE [config |-> default_config, start_port |-> start_port, opened |-> TRUE]
    ELSE [config |-> default_config, start_port |-> start_port, opened |-> FALSE]

\* f"in-{port}-{remarks}" and f"out-{port}-{remarks}"
InTag(port, remarks) == <<105, 110, 45>> \o IntToStr(port) \o Hyphen \o remarks
OutTag(port, remarks) == <<111, 117, 116, 45>> \o IntToStr(port) \o Hyphen \o remarks

create_v2ray_node_config(ss_cfg, port) ==
    [inbound_config |->
        [port |-> port,
         protocol |-> "socks",
         settings |-> [auth |-> "noauth", udp |-> TRUE, userLevel |-> 1],
         tag |-> InTag(port, ss_cfg.remarks),
         sniffing |-> [enabled |-> TRUE, destOverride |-> <<"http", "tls">>]],
     outbound_config |->
        [protocol |-> "shadowsocks",
         settings |-> [servers |-> <<[address |-> ss_cfg.server,
                                      port |-> ss_cfg.server_port,
                                      method |-> ss_cfg.method,
                                      password |-> ss_cfg.password,
                                      level |-> 1]>>],
         tag |-> OutTag(port, ss_cfg.remarks)],
     routing_rule |->
        [type |-> "field",
         inboundTag |-> <<InTag(port, ss_cfg.remarks)>>,
         outboundTag |-> OutTag(port, ss_cfg.remarks)]]

DirectOutbound == [protocol |-> "freedom", tag |-> direct]

\* the loop of convert_shadowsocks_to_v2ray over valid_configs
RECURSIVE AddNodes(_, _, _)
AddNodes(config, configs, current_port) ==
    IF configs = <<>> THEN config
    ELSE LET t == create_v2ray_node_config(configs[1], current_port)
         IN AddNodes([inbounds |-> Append(config.inbounds, t.inbound_config),
                      outbounds |-> Append(config.outbounds, t.outbound_config),
                      routing |-> [config.routing EXCEPT
                                     !.rules = Append(@, t.routing_rule)]],
                     Tail(configs), current_port + 1)

\* the assembly started from the template whatever was loaded
AssembleMutant(config, configs, start_port) ==
    LET c == AddNodes(default_config, configs, start_port)
    IN [c EXCEPT !.outbounds = Append(@, DirectOutbound)]

\* the configuration as it is handed to write_v2ray_config
Assemble(config, configs, start_port) ==
    LET c == AddNodes(config, configs, start_port)
    IN [c EXCEPT !.outbounds = Append(@, DirectOutbound)]

-----------------------------------------------------------------------------
(* update_docker_compose *)

\* f"{min_port}-{max_port}:{min_port}-{max_port}"
PortMapping(min_port, max_port) ==
    IntToStr(min_port) \o Hyphen \o IntToStr(max_port) \o <<58>>
        \o IntToStr(min_port) \o Hyphen \o IntToStr(max_port)

\* The Docker Compose file: absent, or a file whose services.v2ray.ports[0]
\* is the string `ports`.  content.replace(ports[0], port_mapping) turns that
\* entry into port_mapping.
AbsentDocker == [kind |-> "absent", ports |-> <<>>]
DockerWith(p) == [kind |-> "file", ports |-> p]

update_docker_compose(docker, v2ray_config, start_port) ==
    IF docker.kind = "absent" THEN docker
    ELSE LET all_ports == PortsOf(v2ray_config.inbounds)
             min_port == IF all_ports # {} THEN Min(all_ports) ELSE start_port
             max_port == IF all_ports # {} THEN Max(all_ports) ELSE start_port
         IN DockerWith(PortMapping(min_port, max_port))

-----------------------------------------------------------------------------
(* The inputs *)

\* a Shadowsocks record with the five keys create_v2ray_node_config reads
Node(remarks, server) ==
    [remarks |-> remarks, server |-> server, server_port |-> 8388,
     method |-> "aes-256-gcm", password |-> "pw"]

\* a record without the "remarks" key
Unlabelled ==
    [server |-> "s0", server_port |-> 8388, method |-> "aes-256-gcm", password |-> "pw"]

N_HK01 == Node(<<72, 75, 45, 48, 49>>, "s1")                          \* "HK-01"
N_HK02 == Node(<<72, 75, 45, 48, 50>>, "s2")                          \* "HK-02"
N_JP1 == Node(<<74, 80, 32, 49>>, "s3")                               \* "JP 1"
N_US1 == Node(<<85, 83, 45, 49>>, "s4")                               \* "US-1"
N_US2 == Node(<<85, 83, 45, 50>>, "s5")                               \* "US-2"
N_AUS1 == Node(<<65, 85, 83, 45, 49>>, "s6")                          \* "AUS-1"
N_Info == Node(<<26368, 26032, 32593, 22336, 45, 20844, 21578>>, "s7") \* "最新网址-公告"
N_Empty == Node(<<>>, "s8")                                           \* ""
N_XOther == Node(<<45, 79, 116, 104, 101, 114, 45, 49>>, "s9")        \* "-Other-1"
N_CJK == Node(<<39321, 28207>>, "s10")                                \* "香港"
N_HKWide == Node(<<72, 75, 65296, 65297>>, "s11")                     \* "HK０１", fullwidth digits

NodePool ==
    {N_HK01, N_HK02, N_JP1, N_US1, N_AUS1, N_Info, N_Empty, N_XOther, N_CJK, N_HKWide,
     Unlabelled}

SeqsUpTo(S, n) == UNION {[1..k -> S] : k \in 0..n}

\* the record lists the pipeline walk starts on
InputLists == SeqsUpTo(NodePool, MaxLen)

\* region dicts handed to select_nodes_from_regions directly: up to two
\* buckets, each of at most MaxLen entries, empty buckets included
EntryPool ==
    {[node |-> N_HK01, starts_with_region |-> TRUE],
     [node |-> N_HK02, starts_with_region |-> TRUE],
     [node |-> N_AUS1, starts_with_region |-> FALSE]}
DirectRegions ==
    {<<>>}
    \cup {<<[region |-> <<72, 75>>, nodes |-> b]>> : b \in SeqsUpTo(EntryPool, MaxLen)}
    \cup {<<[region |-> <<72, 75>>, nodes |-> b], [region |-> <<85, 83>>, nodes |-> <<>>]>> :
             b \in SeqsUpTo(EntryPool, MaxLen)}
    \cup {<<[region |-> <<85, 83>>, nodes |-> <<>>], [region |-> <<72, 75>>, nodes |-> b]>> :
             b \in SeqsUpTo(EntryPool, MaxLen)}

\* the input file of a converter run: load_shadowsocks_config returns
\* (ss_configs, True), or ([], False) when the file is missing or is not JSON
LoadedInput(cfgs) == [success |-> TRUE, ss_configs |-> cfgs]
FailedInput == [success |-> FALSE, ss_configs |-> <<>>]
InputFiles ==
    {FailedInput,
     LoadedInput(<<>>),
     LoadedInput(<<N_Info, N_HK01>>),
     LoadedInput(<<N_US1, N_AUS1, N_US2>>)}

\* -p: the default 10001 and a port further up
StartPorts == {10001, 10004}

-----------------------------------------------------------------------------
(* The pipeline, one function at a time *)

IdlePipe ==
    /\ stage = "idle"
    /\ ss_configs = <<>>
    /\ valid_nodes = <<>>
    /\ possible_regions = {}
    /\ region_order = <<>>
    /\ regions = <<>>
    /\ valid_configs = <<>>

NoRun ==
    [ran |-> FALSE, input |-> FailedInput, append_mode |-> FALSE, requested |-> 0,
     base |-> AbsentFile, base_writer |-> <<>>, docker_before |-> AbsentDocker,
     opened |-> FALSE, wrote |-> FALSE, start_port |-> 0, valid_configs |-> <<>>,
     config |-> default_config, result |-> <<0, 0>>]

IdleRun ==
    /\ outFile = AbsentFile
    /\ dockerFile = AbsentDocker
    /\ runs = 0
    /\ writer = <<>>
    /\ last = NoRun

InitPipeline ==
    /\ IdleRun
    /\ \/ /\ stage = "loaded"
          /\ ss_configs \in InputLists
          /\ valid_nodes = <<>>
          /\ possible_regions = {}
          /\ region_order = <<>>
          /\ regions = <<>>
          /\ valid_configs = <<>>
       \/ /\ stage = "regions"
          /\ regions \in DirectRegions
          /\ ss_configs = <<>>
          /\ valid_nodes = <<>>
          /\ possible_regions = {}
          /\ region_order = <<>>
          /\ valid_configs = <<>>

Filter ==
    /\ stage = "loaded"
    /\ valid_nodes' = filter_info_nodes(ss_configs)
    /\ stage' = "filtered"
    /\ UNCHANGED <<ss_configs, possible_regions, region_order, regions, valid_configs>>
    /\ UNCHANGED runVars

Extract ==
    /\ stage = "filtered"
    /\ possible_regions' = extract_regions(valid_nodes)
    /\ stage' = "extracted"
    /\ UNCHANGED <<ss_configs, valid_nodes, region_order, regions, valid_configs>>
    /\ UNCHANGED runVars

Group ==
    /\ stage = "extracted"
    /\ \E order \in Orders(possible_regions) :
          /\ region_order' = order
          /\ regions' = group_nodes_by_region(valid_nodes, order)
    /\ stage' = "grouped"
    /\ UNCHANGED <<ss_configs, valid_nodes, possible_regions, valid_configs>>
    /\ UNCHANGED runVars

Select ==
    /\ stage \in {"grouped", "regions"}
    /\ valid_configs' = select_nodes_from_regions(regions)
    /\ stage' = "selected"
    /\ UNCHANGED <<ss_configs, valid_nodes, possible_regions, region_order, regions>>
    /\ UNCHANGED runVars

NextPipeline == Filter \/ Extract \/ Group \/ Select

SpecPipeline == InitPipeline /\ [][NextPipeline]_vars

-----------------------------------------------------------------------------
(* convert_shadowsocks_to_v2ray, run after run on the same files *)

Init ==
    /\ IdlePipe
    /\ outFile \in {AbsentFile, CorruptFile}
    /\ dockerFile \in {AbsentDocker,
                       DockerWith(PortMapping(10001, 10010))}
    /\ runs = 0
    /\ writer = <<>>
    /\ last = NoRun

\* The run from filter_info_nodes on.  `order` is the iteration order of the
\* set possible_regions in this process (the hash seed of the process decides
\* it).  `write` is what write_v2ray_config does: "ok", the file is written;
\* "refused", open(..., 'w') fails and the file stays as it was; "truncated",
\* json.dump fails after open(..., 'w') emptied the file.  `docker` is
\* whether a docker_compose_file is given.
RunLoaded(input, append_mode, start_port, order, write, docker) ==
    LET valid == filter_info_nodes(input.ss_configs)
        grouped == group_nodes_by_region(valid, order)
        selected == select_nodes_from_regions(grouped)
        loaded == load_or_create_v2ray_config(outFile, append_mode, start_port)
        config == Assemble(loaded.config, selected, loaded.start_port)
        success == write = "ok"
    IN /\ last' = [ran |-> TRUE, input |-> input, append_mode |-> append_mode,
                   requested |-> start_port, base |-> outFile, base_writer |-> writer,
                   docker_before |-> dockerFile, opened |-> loaded.opened,
                   wrote |-> success, start_port |-> loaded.start_port,
                   valid_configs |-> selected, config |-> config,
                   result |-> IF success THEN <<Len(selected), Len(grouped)>> ELSE <<0, 0>>]
       /\ outFile' = IF success THEN DocFile(config)
                     ELSE IF write = "truncated" THEN CorruptFile ELSE outFile
       /\ writer' = IF success THEN <<input, append_mode, start_port>>
                    ELSE IF write = "truncated" THEN <<>> ELSE writer
       /\ dockerFile' = IF success /\ docker
                        THEN update_docker_compose(dockerFile, config, loaded.start_port)
                        ELSE dockerFile

\* a run that goes on after the failed load, with the empty list
RunLoadFailsMutant(append_mode, start_port) ==
    RunLoaded(FailedInput, append_mode, start_port, <<>>, "ok", TRUE)

\* the run whose input file cannot be loaded: `return 0, 0`
RunLoadFails(append_mode, start_port) ==
    /\ last' = [NoRun EXCEPT !.ran = TRUE, !.append_mode = append_mode,
                             !.requested = start_port, !.base = outFile,
                             !.base_writer = writer, !.docker_before = dockerFile]
    /\ UNCHANGED <<outFile, dockerFile, writer>>

\* convert_shadowsocks_to_v2ray on an input file that does not load
ConvertUnloadable ==
    /\ runs < MaxRuns
    /\ runs' = runs + 1
    /\ \E append_mode \in BOOLEAN, start_port \in StartPorts :
          RunLoadFails(append_mode, start_port)
    /\ UNCHANGED pipeVars

\* convert_shadowsocks_to_v2ray on an input file that loads
Convert ==
    /\ runs < MaxRuns
    /\ runs' = runs + 1
    /\ \E input \in InputFiles \ {FailedInput}, append_mode \in BOOLEAN,
          start_port \in StartPorts, write \in {"ok", "refused", "truncated"} :
          \E order \in Orders(extract_regions(filter_info_nodes(input.ss_configs))),
             docker \in IF write = "ok" THEN BOOLEAN ELSE {FALSE} :
             RunLoaded(input, append_mode, start_port, order, write, docker)
    /\ UNCHANGED pipeVars

Next == ConvertUnloadable \/ Convert

Spec == Init /\ [][Next]_vars

-----------------------------------------------------------------------------
(* Vocabulary of the properties *)

Range(s) == {s[i] : i \in 1..Len(s)}

\* the three lists of a configuration that pair up, the trailing outbound set aside
Paired(c) ==
    [inbounds |-> c.inbounds,
     outbounds |-> SubSeq(c.outbounds, 1, Len(c.outbounds) - 1),
     rules |-> c.routing.rules]

IsPrefix(a, b) == Len(a) <= Len(b) /\ SubSeq(b, 1, Len(a)) = a

\* the label part of a tag "<prefix><port>-<label>"
TagOf(prefix, port, label) == prefix \o IntToStr(port) \o Hyphen \o label

\* inbound, outbound and rule form one triple
Triple(inb, outb, rule) ==
    \E n \in 0..Len(inb.tag) :
       LET label == SubSeq(inb.tag, Len(inb.tag) - n + 1, Len(inb.tag))
       IN /\ inb.tag = TagOf(<<105, 110, 45>>, inb.port, label)
          /\ outb.tag = TagOf(<<111, 117, 116, 45>>, inb.port, label)
          /\ rule.inboundTag = <<inb.tag>>
          /\ rule.outboundTag = outb.tag

\* the configuration a run starts from, as the claims describe it
BaseOfLast ==
    IF last.append_mode /\ last.base.kind = "doc" THEN last.base.config ELSE default_config

-----------------------------------------------------------------------------
(* Properties of the converter runs *)

\* C1: every written document holds exactly one outbound tagged "direct",
\* and it is the last element of outbounds.
C1_DirectOnceAndLast ==
    outFile.kind = "doc" =>
        LET o == outFile.config.outbounds
        IN /\ Len(o) >= 1
           /\ o[Len(o)].tag = direct
           /\ Cardinality({i \in 1..Len(o) : o[i].tag = direct}) = 1

\* C2: in every written document inbounds, outbounds without the trailing
\* catch-all and routing.rules have the same length, and entry by entry they
\* form one triple with the tags in-{p}-{label}, out-{p}-{label}.
C2_Triples ==
    outFile.kind = "doc" =>
        LET t == Paired(outFile.config)
        IN /\ Len(t.inbounds) = Len(t.outbounds)
           /\ Len(t.inbounds) = Len(t.rules)
           /\ \A i \in 1..Len(t.inbounds) :
                 i <= Len(t.outbounds) /\ i <= Len(t.rules)
                 /\ Triple(t.inbounds[i], t.outbounds[i], t.rules[i])

\* C3: a non-append run on the input and start port of the non-append run
\* that wrote the output file writes the same inbounds, outbounds and
\* routing.rules again.
C3_Idempotent ==
    (/\ last.ran /\ last.wrote /\ ~last.append_mode
     /\ last.base.kind = "doc"
     /\ last.base_writer = <<last.input, FALSE, last.requested>>)
    => /\ outFile.config.inbounds = last.base.config.inbounds
       /\ outFile.config.outbounds = last.base.config.outbounds
       /\ outFile.config.routing.rules = last.base.config.routing.rules

\* the start port the claim C4 gives a run
ClaimedStart ==
    IF /\ last.append_mode /\ last.base.kind = "doc"
       /\ last.base.config.inbounds # <<>>
       /\ last.requested <= Max(PortsOf(last.base.config.inbounds))
    THEN Max(PortsOf(last.base.config.inbounds)) + 1
    ELSE last.requested

\* C4: the n new inbounds of a run carry the ports s, s+1, ..., s+n-1 in
\* output order, s being the requested start port, or max(used)+1 in append
\* mode when the requested port is not above the ports of the loaded
\* document; no new port is a port of the base document, and the inbound
\* ports of a written document are pairwise distinct.
C4_Ports ==
    /\ (last.ran /\ last.input.success) =>
          LET n == Len(last.valid_configs)
              old == Len(BaseOfLast.inbounds)
              ins == last.config.inbounds
          IN /\ Len(ins) = old + n
             /\ \A k \in 1..n : ins[old + k].port = ClaimedStart + k - 1
             /\ \A k \in 1..n : ins[old + k].port \notin PortsOf(BaseOfLast.inbounds)
    /\ outFile.kind = "doc" =>
          \A i, j \in 1..Len(outFile.config.inbounds) :
             i # j => outFile.config.inbounds[i].port # outFile.config.inbounds[j].port

C4_Witness ==
    /\ last.ran /\ last.wrote /\ last.append_mode /\ last.base.kind = "doc"
    /\ last.base.config.inbounds # <<>>
    /\ last.requested <= Max(PortsOf(last.base.config.inbounds))
    /\ Len(last.valid_configs) >= 2

\* C5: an append run on a loadable base document keeps the base document's
\* inbounds, outbounds and routing.rules, unchanged and in order, as the
\* prefix of the lists it writes.
C5_BaseIsPrefix ==
    (last.ran /\ last.wrote /\ last.append_mode /\ last.base.kind = "doc") =>
        /\ IsPrefix(last.base.config.inbounds, outFile.config.inbounds)
        /\ IsPrefix(last.base.config.outbounds, outFile.config.outbounds)
        /\ IsPrefix(last.base.config.routing.rules, outFile.config.routing.rules)
        /\ outFile.config.routing.domainStrategy = last.base.config.routing.domainStrategy

\* base ports 10001-10003, three selected nodes, new inbounds on 10004-10006
C5_Witness ==
    /\ last.ran /\ last.wrote /\ last.append_mode /\ last.base.kind = "doc"
    /\ PortsOf(last.base.config.inbounds) = 10001..10003
    /\ Len(last.valid_configs) = 3
    /\ Len(outFile.config.inbounds) = 6
    /\ \A k \in 1..3 : outFile.config.inbounds[3 + k].port = 10003 + k

\* C8: a run whose input file does not load returns (0, 0), neither reads
\* nor writes the output file and leaves the Docker Compose file alone.
C8_LoadFailureAborts ==
    (last.ran /\ ~last.input.success) =>
        /\ last.result = <<0, 0>>
        /\ ~last.opened
        /\ ~last.wrote
        /\ outFile = last.base
        /\ dockerFile = last.docker_before

C8_Witness ==
    /\ last.ran /\ ~last.input.success /\ last.append_mode
    /\ last.base.kind = "doc" /\ last.base.config.inbounds # <<>>
    /\ dockerFile.kind = "file"

-----------------------------------------------------------------------------
(* Properties of the pipeline functions *)

\* the number of nodes the claims give a bucket of n entries
ClaimedCount(n) == IF n = 0 THEN 0 ELSE IF n = 1 THEN 1 ELSE 2

RECURSIVE ClaimedTotal(_)
ClaimedTotal(d) ==
    IF d = <<>> THEN 0 ELSE ClaimedCount(Len(d[1].nodes)) + ClaimedTotal(Tail(d))

\* C6: from every bucket handed to select_nodes_from_regions 0, 1 or 2 nodes
\* are selected, 2 only from a bucket of at least 2 entries, exactly one from
\* a bucket of one entry and none from an empty bucket.
C6_AtMostTwo ==
    stage = "selected" =>
        /\ \A i \in 1..Len(regions) :
              LET b == regions[i].nodes
                  k == Len(SelectedOf(b))
              IN /\ k \in {0, 1, 2}
                 /\ k = 2 => Len(b) >= 2
                 /\ Len(b) = 1 => k = 1
                 /\ Len(b) = 0 => k = 0
        /\ Len(valid_configs) <= 2 * Len(regions)
        /\ Len(valid_configs) = ClaimedTotal(regions)

C6_Witness ==
    /\ stage = "selected"
    /\ \E i \in 1..Len(regions) : regions[i].nodes = <<>>
    /\ \E i \in 1..Len(regions) : Len(regions[i].nodes) >= 3
    /\ Len(valid_configs) = 2

\* the ascending key (not startsWithRegion, label) of the claim
ClaimedBefore(a, b) ==
    LET ka == IF a.starts_with_region THEN 0 ELSE 1
        kb == IF b.starts_with_region THEN 0 ELSE 1
    IN ka < kb \/ (ka = kb /\ StrLess(a.node.remarks, b.node.remarks))

\* C9: from a bucket of at least 2 entries the minimum and the maximum under
\* the key (not startsWithRegion, label) are emitted, in this order; they are
\* entries at two different positions of the bucket; the first starts with
\* the region, with the smallest such label, whenever the bucket has such an
\* entry; a bucket of exactly 2 entries has both selected.
C9_FirstAndLast ==
    stage = "selected" =>
        \A i \in 1..Len(regions) :
           LET b == regions[i].nodes
               off == ClaimedTotal(SubSeq(regions, 1, i - 1))
           IN Len(b) >= 2 =>
                /\ off + 2 <= Len(valid_configs)
                /\ \E p, q \in 1..Len(b) :
                      /\ p # q
                      /\ b[p].node = valid_configs[off + 1]
                      /\ b[q].node = valid_configs[off + 2]
                      /\ \A k \in 1..Len(b) : ~ClaimedBefore(b[k], b[p])
                      /\ \A k \in 1..Len(b) : ~ClaimedBefore(b[q], b[k])
                      /\ (\E k \in 1..Len(b) : b[k].starts_with_region) =>
                            /\ b[p].starts_with_region
                            /\ \A k \in 1..Len(b) :
                                  b[k].starts_with_region =>
                                     ~StrLess(b[k].node.remarks, b[p].node.remarks)
                      /\ Len(b) = 2 => {p, q} = {1, 2}

\* a bucket of three entries, one of them not starting with the region
C9_Witness ==
    /\ stage = "selected"
    /\ \E i \in 1..Len(regions) :
          /\ Len(regions[i].nodes) = 3
          /\ \E k \in 1..3 : regions[i].nodes[k].starts_with_region
          /\ ~regions[i].nodes[3].starts_with_region
          /\ regions[i].nodes[1].node # regions[i].nodes[2].node
    /\ Len(valid_configs) = 2

\* the retention rule of the claim C7 as stated: a non-empty label without marker
ClaimedRetained(cfg) ==
    "remarks" \in DOMAIN cfg /\ cfg.remarks # <<>> /\ ~HasKeyword(cfg.remarks)

\* the retention rule of the amended claim: a label, empty or not, without marker
AmendedRetained(cfg) == "remarks" \in DOMAIN cfg /\ ~HasKeyword(cfg.remarks)

\* C7 as stated: filter_info_nodes retains exactly the records with a
\* non-empty label that contains no marker, in input order.
C7_Original ==
    stage = "filtered" => valid_nodes = SelectSeq(ss_configs, ClaimedRetained)

\* C7 as amended: filter_info_nodes retains exactly the records that have a
\* label (the empty label included) containing no marker, in input order; the
\* record labelled "最新网址-公告" and the record without label are dropped.
C7_Amended ==
    stage = "filtered" =>
        /\ valid_nodes = SelectSeq(ss_configs, AmendedRetained)
        /\ N_Info \notin Range(valid_nodes)
        /\ Unlabelled \notin Range(valid_nodes)

C7_Witness ==
    /\ stage = "filtered"
    /\ ss_configs = <<N_Info, N_Empty, Unlabelled>>
    /\ valid_nodes = <<N_Empty>>

\* the entries of s at the positions f sends to i, in order
PickedBy(s, f, i) ==
    LET idx == SelectSeq([k \in 1..Len(s) |-> k], LAMBDA k : f[k] = i)
    IN [j \in 1..Len(idx) |-> s[idx[j]]]

NodesOf(bucket) == [j \in 1..Len(bucket.nodes) |-> bucket.nodes[j].node]

\* C10: group_nodes_by_region puts every valid record in exactly one bucket,
\* none lost or doubled, each bucket in input order; and an entry of the
\* bucket "Other" with startsWithRegion = false is a record in whose label no
\* candidate region occurs and for which the leading pattern yields no region.
C10_OneBucketEach ==
    stage = "grouped" =>
        /\ \A i, j \in 1..Len(regions) : i # j => regions[i].region # regions[j].region
        /\ \E f \in [1..Len(valid_nodes) -> 1..Len(regions)] :
              \A i \in 1..Len(regions) : NodesOf(regions[i]) = PickedBy(valid_nodes, f, i)
        /\ \A i \in 1..Len(regions) :
              regions[i].region = Other =>
                 \A j \in 1..Len(regions[i].nodes) :
                    LET e == regions[i].nodes[j]
                    IN ~e.starts_with_region =>
                          /\ \A r \in possible_regions : ~Contains(e.node.remarks, r)
                          /\ ~Accepted(MatchLeading(e.node.remarks))

====
